---- MODULE Spec2Model ----
(***************************************************************************)
(* The Access database gateway of Access_db.py (named-database registry)   *)
(* and access_simple.py (one database path): the registry built at import, *)
(* and the tool handlers, each one atomic step from call to return (the    *)
(* handlers are coroutines without an await, so one runs to its return     *)
(* before the next starts).                                                *)
(*                                                                         *)
(* Text is a sequence of pieces.  Text whose length or characters the code *)
(* looks at (names, SQL, cell values, driver messages) has one character   *)
(* per piece; a fixed message of the code is one piece and holds no line   *)
(* break.  A line break is always the piece "\n".                           *)
(***************************************************************************)
EXTENDS Naturals, Sequences, FiniteSets

\* ------------------------------------------------------------------ bounds
MaxTables == 2
MaxRows == 2
MaxColumns == 2
MaxDrivers == 2

\* -------------------------------------------------------------------- text
NL == "\n"
Whitespace == {" ", NL, "\t"}

\* str.startswith
StartsWith(s, p) == Len(s) >= Len(p) /\ SubSeq(s, 1, Len(p)) = p

\* The test as s.startswith(sub).
ContainsAtStart(s, sub) == Len(s) >= Len(sub) /\ SubSeq(s, 1, Len(sub)) = sub

\* sub in s
Contains(s, sub) ==
    \E i \in 1..(Len(s) + 1) :
        i + Len(sub) - 1 <= Len(s) /\ SubSeq(s, i, i + Len(sub) - 1) = sub

UpperChar(c) ==
    CASE c = "s" -> "S" [] c = "e" -> "E" [] c = "l" -> "L"
      [] c = "c" -> "C" [] c = "t" -> "T" [] c = "d" -> "D"
      [] OTHER -> c

\* str.upper
Upper(s) == [i \in 1..Len(s) |-> UpperChar(s[i])]

RECURSIVE LStrip(_)
LStrip(s) == IF s # <<>> /\ s[1] \in Whitespace THEN LStrip(Tail(s)) ELSE s

RECURSIVE RStrip(_)
RStrip(s) ==
    IF s # <<>> /\ s[Len(s)] \in Whitespace THEN RStrip(SubSeq(s, 1, Len(s) - 1)) ELSE s

\* str.strip
Strip(s) == RStrip(LStrip(s))

\* sep.join(items)
RECURSIVE Join(_, _)
Join(items, sep) ==
    IF items = <<>> THEN <<>>
    ELSE IF Len(items) = 1 THEN items[1]
    ELSE items[1] \o sep \o Join(Tail(items), sep)

\* "-" * n
RECURSIVE Dashes(_)
Dashes(n) == IF n = 0 THEN <<>> ELSE <<"-">> \o Dashes(n - 1)

\* ------------------------------------------------------------- environment
SELECT == <<"S", "E", "L", "E", "C", "T">>
MSys == <<"M", "S", "y", "s">>
IM002 == <<"I", "M", "0", "0", "2">>
S42S02 == <<"4", "2", "S", "0", "2">>

default_db_name == <<"d", "e", "f", "a", "u", "l", "t">>
qa == <<"q", "a">>
zz == <<"z", "z">>

\* A registry value: what str() makes of it, and whether os.path takes it as a
\* path (a JSON null, list, object or float is stored as it is and is no path).
PathOf(text) == [ok |-> TRUE, str |-> text]
NotAPath == [ok |-> FALSE, str |-> "None"]

default_db_path ==
    PathOf("M:\\Quality System Database\\old\\BE\\2025\\Quality System Database_be 3-2-25 Post Compact.mdb")

FilePaths == {"a.mdb", "b.mdb"}

\* ACCESS_DB_CONFIG, by what json.loads makes of it.
ConfigMappings ==
    {<<>>,
     <<[name |-> qa, path |-> PathOf("a.mdb")]>>,
     <<[name |-> default_db_name, path |-> PathOf("a.mdb")], [name |-> qa, path |-> NotAPath]>>,
     <<[name |-> qa, path |-> PathOf("a.mdb")],
       [name |-> default_db_name, path |-> PathOf("b.mdb")]>>}

ConfigEnv ==
    {[kind |-> k, items |-> <<>>] : k \in {"absent", "empty", "unparseable", "nonmapping"}}
    \cup {[kind |-> "mapping", items |-> m] : m \in ConfigMappings}

\* ACCESS_DB_PATH
PathEnv == {[set |-> FALSE, value |-> ""], [set |-> TRUE, value |-> "b.mdb"]}

VARIABLES
    program,      \* which of the two files runs
    env_config,   \* os.environ["ACCESS_DB_CONFIG"]
    env_path,     \* os.environ["ACCESS_DB_PATH"]
    databases,    \* Access_db.py: the registry, in insertion order
    db_path,      \* access_simple.py: the one database path
    fs,           \* the paths that exist on the filesystem
    openConns,    \* driver connections open now
    last          \* the last handler invocation: its arguments and what it did

vars == <<program, env_config, env_path, databases, db_path, fs, openConns, last>>

\* ---------------------------------------------------------------- registry
Keys(reg) == [i \in 1..Len(reg) |-> reg[i].name]
HasKey(reg, n) == \E i \in 1..Len(reg) : reg[i].name = n
Lookup(reg, n) == reg[CHOOSE i \in 1..Len(reg) : reg[i].name = n].path

\* os.environ.get("ACCESS_DB_PATH", default_db_path)
single_db_path(penv) == IF penv.set THEN PathOf(penv.value) ELSE default_db_path

\* The module-level try block that fills the registry.
InitDatabases(cfg, penv) ==
    IF cfg.kind \in {"unparseable", "nonmapping"}
    THEN \* json.loads or .items() raised: the except branch
         <<[name |-> default_db_name, path |-> default_db_path]>>
    ELSE LET loaded == IF cfg.kind = "mapping" THEN cfg.items ELSE <<>>
         IN  IF loaded = <<>>
             THEN <<[name |-> default_db_name, path |-> single_db_path(penv)]>>
             ELSE loaded

\* "DRIVER=...;DBQ=<path>;ExtendedAnsiSQL=1;"
get_connection_string(path) ==
    <<"DRIVER={Microsoft Access Driver (*.mdb, *.accdb)};", "DBQ=", path.str, ";",
      "ExtendedAnsiSQL=1;">>

\* get_database_path with the last configured name left out of the message.
get_database_path_short(database_name) ==
    IF ~HasKey(databases, database_name)
    THEN [raised |-> TRUE,
          msg |-> <<"Database '">> \o database_name
                  \o <<"' not found. Available databases: ">>
                  \o Join(SubSeq(Keys(databases), 1, Len(databases) - 1), <<",", " ">>),
          value |-> NotAPath]
    ELSE [raised |-> FALSE, msg |-> <<>>, value |-> Lookup(databases, database_name)]

\* Returns the path, or raises ValueError with the message.
get_database_path(database_name) ==
    IF ~HasKey(databases, database_name)
    THEN [raised |-> TRUE,
          msg |-> <<"Database '">> \o database_name
                  \o <<"' not found. Available databases: ">>
                  \o Join(Keys(databases), <<",", " ">>),
          value |-> NotAPath]
    ELSE [raised |-> FALSE, msg |-> <<>>, value |-> Lookup(databases, database_name)]

\* A handler that takes every path to exist.
PathExistsUnchecked(path) == TRUE

\* os.path.exists
PathExists(path) == path.str \in fs

\* ------------------------------------------------------------------ driver
\* str(e) of a pyodbc.Error, character by character.
ConnectMessages == {<<"[">> \o IM002 \o <<"]">>, <<"[", "H", "Y", "0", "0", "0", "]">>}
CallMessages ==
    {<<"[">> \o S42S02 \o <<"]">>,
     <<"[">> \o S42S02 \o <<"]", "[">> \o IM002 \o <<"]">>,
     <<"[", "H", "Y", "0", "0", "0", "]">>}

\* str(e) of an exception that is no pyodbc.Error and no ValueError.
FaultMessage == <<"unexpected failure">>

\* str(e) of the TypeError os.path.exists raises for a value that is no path.
TypeErrorMessage ==
    <<"stat: path should be string, bytes, os.PathLike or integer, not NoneType">>

\* Names the Access engine admits for tables and columns (no control character).
TableNames == {MSys \o <<"O">>, <<"m", "s", "y", "s">>, <<"T", "1">>}

\* A cell of a row: None, or a value and its str().
NullCell == [null |-> TRUE, str |-> <<>>]
Cell(text) == [null |-> FALSE, str |-> text]
Seven == Cell(<<"7">>)
Memo == Cell(<<"a", NL, "b">>)

\* cursor.description of an accepted statement (its column names), and the rows
\* fetchall may return under it.
Descriptions == {<<<<"c">>>>, <<<<"i", "d">>, <<"c">>>>}
RowsOf(description) ==
    IF Len(description) = 1
    THEN {<<NullCell>>, <<Seven>>, <<Memo>>}
    ELSE {<<Seven, NullCell>>, <<NullCell, Seven>>, <<Seven, Memo>>}

SeqsUpTo(S, n) == UNION {[1..k -> S] : k \in 0..n}

\* One record of cursor.columns: the fields the code reads, [3], [5] and [10].
ColumnRecords ==
    {[column_name |-> <<"i", "d">>, data_type |-> "INTEGER", nullable |-> 0],
     [column_name |-> <<"c">>, data_type |-> "VARCHAR", nullable |-> 1],
     [column_name |-> <<"c">>, data_type |-> "VARCHAR", nullable |-> 2]}

NoData == [tables |-> <<>>, has_description |-> FALSE, description |-> <<>>,
           rows |-> <<>>, columns |-> <<>>]

\* What the driver does in one invocation: pyodbc.connect raises (connect =
\* "error"), the call on the cursor raises a pyodbc.Error (call = "error") or
\* another exception (call = "fault"), or the call returns data.
Failures ==
    {[connect |-> "error", call |-> "none", msg |-> m, data |-> NoData] : m \in ConnectMessages}
    \cup {[connect |-> "ok", call |-> "error", msg |-> m, data |-> NoData] : m \in CallMessages}
    \cup {[connect |-> "ok", call |-> "fault", msg |-> FaultMessage, data |-> NoData]}

Returns(d) == [connect |-> "ok", call |-> "ok", msg |-> <<>>, data |-> d]

TablesDriver ==
    Failures \cup {Returns([NoData EXCEPT !.tables = t]) : t \in SeqsUpTo(TableNames, MaxTables)}

QueryDriver ==
    Failures
    \cup {Returns(NoData)}
    \cup UNION {{Returns([NoData EXCEPT !.has_description = TRUE, !.description = d,
                                        !.rows = r]) :
                    r \in SeqsUpTo(RowsOf(d), MaxRows)} :
                 d \in Descriptions}

ColumnsDriver ==
    Failures
    \cup {Returns([NoData EXCEPT !.columns = c]) : c \in SeqsUpTo(ColumnRecords, MaxColumns)}

NoDriver == [connect |-> "none", call |-> "none", msg |-> <<>>, data |-> NoData]

\* The driver behaviours to draw from: none when the handler does not reach
\* pyodbc.connect.
DriverIf(reached, behaviours) == IF reached THEN behaviours ELSE {NoDriver}

\* ---------------------------------------------------------------- handlers
\* What one invocation did: the string it returned (or the exception that left
\* it), the return site's kind, the logger.error calls it made, the connections
\* it opened and released, and whether it called cursor.execute.
Outcome(kind, resp, errors, scope) ==
    [result |-> kind, resp |-> resp, raised |-> "none", errors |-> errors,
     attempted |-> scope.attempted, opened |-> scope.opened, closed |-> scope.closed,
     executed |-> scope.executed]

Propagates(exc) ==
    [result |-> "raised", resp |-> <<>>, raised |-> exc, errors |-> 0,
     attempted |-> FALSE, opened |-> 0, closed |-> 0, executed |-> FALSE]

\* No pyodbc.connect call was made.
NoScope == [attempted |-> FALSE, opened |-> 0, closed |-> 0, executed |-> FALSE]

\* Leaving `with pyodbc.connect(conn_str) as conn:` by a return ("return"), a
\* pyodbc.Error ("error") or another exception ("fault"): conn is the handler's
\* only reference to the connection and goes with the block and the handler's
\* frame, which releases the handle.  The number of connections released.
ReleaseNotOnException(how) == IF how = "return" THEN 1 ELSE 0

ReleaseOnExit(how) == 1

\* The scope of a with block: exc is what left it ("none": a return of value).
Scope(exc, msg, value, opened, how, executed) ==
    [exc |-> exc, msg |-> msg, value |-> value, attempted |-> TRUE, opened |-> opened,
     closed |-> IF opened = 0 THEN 0 ELSE ReleaseOnExit(how), executed |-> executed]

\* pyodbc.connect raised: no connection was opened.
ConnectFailed(drv) == Scope("pyodbc.Error", drv.msg, <<>>, 0, "error", FALSE)

\* The "Database file not found" message of every handler.
FileNotFoundMessage(path) ==
    <<"Error: Database file not found at ", path.str,
      ". Please ensure the correct database file path is specified.">>

DriverNotInstalledAdvice ==
    <<NL, NL, "The Microsoft Access ODBC driver is not installed or configured properly. ",
      "Please install the 'Microsoft Access Database Engine 2016 Redistributable' from Microsoft's website.">>

TableNotFoundAdvice ==
    <<NL, NL, "The table referenced in your query does not exist. Use the list_tables tool to see available tables.">>

\* The loop without its startswith test.
FilterTablesKeepAll(tables) == tables

\* The loop over cursor.tables(tableType='TABLE').
RECURSIVE FilterTables(_)
FilterTables(tables) ==
    IF tables = <<>> THEN <<>>
    ELSE IF ~StartsWith(tables[1], MSys)
         THEN <<tables[1]>> \o FilterTables(Tail(tables))
         ELSE FilterTables(Tail(tables))

\* Access_db.py list_databases; CHECK and CROSS stand for its two marks.
list_databases_run ==
    IF databases = <<>>
    THEN Outcome("ok", <<"No databases configured.">>, 0, NoScope)
    ELSE IF \E i \in 1..Len(databases) : ~databases[i].path.ok
    THEN \* os.path.exists raises TypeError, and nothing catches it
         Propagates("TypeError")
    ELSE LET results ==
                 <<<<"Available Databases:">>, <<"-------------------">>>>
                 \o [i \in 1..Len(databases) |->
                        databases[i].name
                        \o <<": ", databases[i].path.str, " [",
                             IF PathExists(databases[i].path) THEN "CHECK" ELSE "CROSS",
                             "]">>]
         IN  Outcome("ok", Join(results, <<NL>>), 0, NoScope)

\* The with block of list_tables; found(names) is the text of a non-empty list.
TablesScope(drv, none_found, title) ==
    IF drv.connect = "error" THEN ConnectFailed(drv)
    ELSE IF drv.call = "error" THEN Scope("pyodbc.Error", drv.msg, <<>>, 1, "error", FALSE)
    ELSE IF drv.call = "fault" THEN Scope("Exception", drv.msg, <<>>, 1, "fault", FALSE)
    ELSE LET table_names == FilterTables(drv.data.tables)
         IN  Scope("none", <<>>,
                   IF table_names = <<>> THEN none_found
                   ELSE title \o Join(table_names, <<NL>>),
                   1, "return", FALSE)

\* except pyodbc.Error of list_tables and describe_table: the IM002 advice only.
DriverErrorText(prefix, msg) ==
    prefix \o msg \o (IF Contains(msg, IM002) THEN DriverNotInstalledAdvice ELSE <<>>)

\* The except clause of query with the IM002 advice alone.
QueryErrorTextOneAdvice(prefix, msg) ==
    prefix \o msg \o (IF Contains(msg, IM002) THEN DriverNotInstalledAdvice ELSE <<>>)

\* except pyodbc.Error of query: the IM002 advice, else the 42S02 advice.
QueryErrorText(prefix, msg) ==
    prefix \o msg
    \o (IF Contains(msg, IM002) THEN DriverNotInstalledAdvice
        ELSE IF Contains(msg, S42S02) THEN TableNotFoundAdvice
        ELSE <<>>)

\* The except clauses of list_tables and describe_table after a with block.
AfterScope(sc, driver_prefix, other_prefix) ==
    IF sc.exc = "none" THEN Outcome("ok", sc.value, 0, sc)
    ELSE IF sc.exc = "pyodbc.Error"
    THEN Outcome("DriverError", DriverErrorText(driver_prefix, sc.msg), 1, sc)
    ELSE Outcome("UnexpectedError", other_prefix \o sc.msg, 1, sc)

\* Access_db.py list_tables
list_tables_run(database_name, drv) ==
    LET r == get_database_path(database_name)
    IN  IF r.raised THEN Outcome("NotFound", r.msg, 0, NoScope)
        ELSE IF ~r.value.ok
        THEN Outcome("UnexpectedError", <<"Error listing tables: ">> \o TypeErrorMessage,
                     1, NoScope)
        ELSE IF ~PathExists(r.value)
        THEN Outcome("DatabaseUnavailable", FileNotFoundMessage(r.value), 1, NoScope)
        ELSE AfterScope(
                 TablesScope(drv,
                             <<"No tables found in database '">> \o database_name \o <<"'.">>,
                             <<"Tables in database '">> \o database_name \o <<"':", NL>>),
                 <<"Error connecting to database '">> \o database_name \o <<"': ">>,
                 <<"Error listing tables: ">>)

\* The SELECT check without the strip.
IsSelectUntrimmed(sql) == StartsWith(Upper(sql), SELECT)

\* sql.strip().upper().startswith("SELECT")
IsSelect(sql) == StartsWith(Upper(Strip(sql)), SELECT)

SelectOnlyMessage == <<"Error: Only SELECT queries are allowed for security reasons.">>

\* The inner loop over a row's values.
FormatRow(row) ==
    Join([i \in 1..Len(row) |-> IF row[i].null THEN <<"N", "U", "L", "L">> ELSE row[i].str],
         <<" ", "|", " ">>)

\* The with block of query, from cursor.execute on; title holds the lines the
\* result starts with before the column header.
QueryScope(drv, title) ==
    IF drv.connect = "error" THEN ConnectFailed(drv)
    ELSE IF drv.call = "error" THEN Scope("pyodbc.Error", drv.msg, <<>>, 1, "error", TRUE)
    ELSE IF drv.call = "fault" THEN Scope("Exception", drv.msg, <<>>, 1, "fault", TRUE)
    ELSE IF ~drv.data.has_description
    THEN Scope("none", <<>>, <<"Query executed successfully, but returned no results.">>,
               1, "return", TRUE)
    ELSE LET column_header == Join(drv.data.description, <<" ", "|", " ">>)
             separator == Dashes(Len(column_header))
             results == title \o <<column_header, separator>>
             rows == drv.data.rows
         IN  IF rows = <<>>
             THEN Scope("none", <<>>,
                        Join(results \o <<<<"No data found matching your query.">>>>, <<NL>>),
                        1, "return", TRUE)
             ELSE Scope("none", <<>>,
                        Join(results \o [i \in 1..Len(rows) |-> FormatRow(rows[i])], <<NL>>),
                        1, "return", TRUE)

\* The except clauses of query after its with block.
AfterQueryScope(sc) ==
    IF sc.exc = "none" THEN Outcome("ok", sc.value, 0, sc)
    ELSE IF sc.exc = "pyodbc.Error"
    THEN Outcome("DriverError", QueryErrorText(<<"Error executing query: ">>, sc.msg), 1, sc)
    ELSE Outcome("UnexpectedError", <<"Error executing query: ">> \o sc.msg, 1, sc)

\* Access_db.py query
query_run(sql, database_name, drv) ==
    LET r == get_database_path(database_name)
    IN  IF r.raised THEN Outcome("NotFound", r.msg, 0, NoScope)
        ELSE IF ~r.value.ok
        THEN Outcome("UnexpectedError", <<"Error executing query: ">> \o TypeErrorMessage,
                     1, NoScope)
        ELSE IF ~PathExists(r.value)
        THEN Outcome("DatabaseUnavailable", FileNotFoundMessage(r.value), 1, NoScope)
        ELSE IF ~IsSelect(sql)
        THEN Outcome("RejectedInput", SelectOnlyMessage, 0, NoScope)
        ELSE AfterQueryScope(
                 QueryScope(drv, <<<<"Results from database '">> \o database_name \o <<"':">>>>))

\* The column line with the driver's flag printed as it is.
ColumnLineRawFlag(column_info) ==
    column_info.column_name
    \o <<" ", "|", " ", column_info.data_type, " ", "|", " ">>
    \o (IF column_info.nullable # 0 THEN <<"1">> ELSE <<"0">>)

\* One line of describe_table per column record.
ColumnLine(column_info) ==
    column_info.column_name
    \o <<" ", "|", " ", column_info.data_type, " ", "|", " ">>
    \o (IF column_info.nullable # 0 THEN <<"Y", "e", "s">> ELSE <<"N", "o">>)

\* The with block of describe_table; head holds its first two lines.
ColumnsScope(drv, head, not_found) ==
    IF drv.connect = "error" THEN ConnectFailed(drv)
    ELSE IF drv.call = "error" THEN Scope("pyodbc.Error", drv.msg, <<>>, 1, "error", FALSE)
    ELSE IF drv.call = "fault" THEN Scope("Exception", drv.msg, <<>>, 1, "fault", FALSE)
    ELSE LET results == head \o <<<<"Column Name | Data Type | Nullable">>, Dashes(50)>>
             column_list == drv.data.columns
         IN  IF column_list = <<>>
             THEN Scope("none", <<>>, not_found, 1, "return", FALSE)
             ELSE Scope("none", <<>>,
                        Join(results
                             \o [i \in 1..Len(column_list) |-> ColumnLine(column_list[i])],
                             <<NL>>),
                        1, "return", FALSE)

\* Access_db.py describe_table
describe_table_run(table_name, database_name, drv) ==
    LET r == get_database_path(database_name)
    IN  IF r.raised THEN Outcome("NotFound", r.msg, 0, NoScope)
        ELSE IF ~r.value.ok
        THEN Outcome("UnexpectedError", <<"Error describing table: ">> \o TypeErrorMessage,
                     1, NoScope)
        ELSE IF ~PathExists(r.value)
        THEN Outcome("DatabaseUnavailable", FileNotFoundMessage(r.value), 1, NoScope)
        ELSE AfterScope(
                 ColumnsScope(drv,
                     <<<<"Table: ">> \o table_name \o <<" (Database: ">> \o database_name
                        \o <<")">>,
                       Dashes(Len(table_name) + Len(database_name) + 20)>>,
                     <<"Table '">> \o table_name \o <<"' not found in database '">>
                     \o database_name \o <<"' or has no columns.">>),
                 <<"Error describing table: ">>,
                 <<"Error describing table: ">>)

\* pyodbc.drivers(): it raises, or returns the names of the installed drivers.
Access == <<"A", "c", "c", "e", "s", "s">>
DriverNames == {<<"M", "S", " ">> \o Access, <<"a", "c", "c", "e", "s", "s">>}
DriverLists ==
    {[raises |-> TRUE, names |-> <<>>]}
    \cup {[raises |-> FALSE, names |-> n] : n \in SeqsUpTo(DriverNames, MaxDrivers)}
NoDrivers == [raises |-> FALSE, names |-> <<>>]

\* The report of get_connection_info from the driver list on; title is its
\* first line.
ConnectionInfo(title, path, available_drivers) ==
    LET access_driver_available ==
            \E i \in 1..Len(available_drivers) : Contains(available_drivers[i], Access)
        info ==
            <<title,
              <<"-----------------------------------">>,
              <<"Database path: ", path.str>>,
              <<"Database file exists: ", IF PathExists(path) THEN "Yes" ELSE "No">>,
              <<>>,
              <<"Available ODBC Drivers:">>,
              <<"-----------------------------------">>>>
            \o (IF available_drivers # <<>>
                THEN [i \in 1..Len(available_drivers) |-> <<"-", " ">> \o available_drivers[i]]
                ELSE <<<<"No ODBC drivers found.">>>>)
            \o <<<<>>,
                 <<"Microsoft Access ODBC driver available: ",
                   IF access_driver_available THEN "Yes" ELSE "No">>>>
            \o (IF ~access_driver_available
                THEN <<<<>>,
                       <<"RECOMMENDATION:">>,
                       <<"To fix the missing Access driver, please install the 'Microsoft Access Database Engine 2016 Redistributable'">>,
                       <<"from Microsoft's website: https://www.microsoft.com/en-us/download/details.aspx?id=54920">>>>
                ELSE <<>>)
    IN  Join(info, <<NL>>)

\* Access_db.py get_connection_info
get_connection_info_run(database_name, drivers) ==
    LET r == get_database_path(database_name)
        available_drivers == IF drivers.raises THEN <<>> ELSE drivers.names
        logged == IF drivers.raises THEN 1 ELSE 0
    IN  IF r.raised THEN Outcome("NotFound", r.msg, 0, NoScope)
        ELSE IF ~r.value.ok
        THEN Outcome("UnexpectedError",
                     <<"Error getting connection info: ">> \o TypeErrorMessage,
                     logged + 1, NoScope)
        ELSE Outcome("ok",
                     ConnectionInfo(<<"Database Connection Information for '">>
                                    \o database_name \o <<"':">>,
                                    r.value, available_drivers),
                     logged, NoScope)

\* ----------------------------------------------------------- access_simple
\* access_simple.py list_tables
simple_list_tables_run(drv) ==
    IF ~PathExists(db_path)
    THEN Outcome("DatabaseUnavailable", FileNotFoundMessage(db_path), 1, NoScope)
    ELSE AfterScope(TablesScope(drv, <<"No tables found in the database.">>, <<>>),
                    <<"Error connecting to database: ">>,
                    <<"Error listing tables: ">>)

\* access_simple.py query
simple_query_run(sql, drv) ==
    IF ~PathExists(db_path)
    THEN Outcome("DatabaseUnavailable", FileNotFoundMessage(db_path), 1, NoScope)
    ELSE IF ~IsSelect(sql)
    THEN Outcome("RejectedInput", SelectOnlyMessage, 0, NoScope)
    ELSE AfterQueryScope(QueryScope(drv, <<>>))

\* access_simple.py describe_table
simple_describe_table_run(table_name, drv) ==
    IF ~PathExists(db_path)
    THEN Outcome("DatabaseUnavailable", FileNotFoundMessage(db_path), 1, NoScope)
    ELSE AfterScope(
             ColumnsScope(drv,
                 <<<<"Table: ">> \o table_name, Dashes(Len(table_name) + 7)>>,
                 <<"Table '">> \o table_name \o <<"' not found or has no columns.">>),
             <<"Error describing table: ">>,
             <<"Error describing table: ">>)

\* access_simple.py get_connection_info
simple_get_connection_info_run(drivers) ==
    Outcome("ok",
            ConnectionInfo(<<"Database Connection Information:">>, db_path,
                           IF drivers.raises THEN <<>> ELSE drivers.names),
            IF drivers.raises THEN 1 ELSE 0, NoScope)

\* ------------------------------------------------------------ state machine
\* Arguments of the calls.
DatabaseNameArgs == {default_db_name, qa, zz}
SqlArgs ==
    {<<" ", " ", "s", "e", "l", "e", "c", "t", " ", "1">>,
     <<"D", "E", "L", "E", "T", "E", " ", "F", "R", "O", "M", " ", "T">>,
     <<"s", "e", "l", "e", "c">>,
     <<>>}
TableNameArgs == {<<"T", "1">>, <<"%">>}

NoInvocation ==
    [op |-> "none", database_name |-> <<>>, sql |-> <<>>, table_name |-> <<>>,
     drv |-> NoDriver, drivers |-> NoDrivers, fs |-> {},
     result |-> "none", resp |-> <<>>, raised |-> "none", errors |-> 0,
     attempted |-> FALSE, opened |-> 0, closed |-> 0, executed |-> FALSE]

\* The record of one invocation, with the filesystem it ran on; the driver's
\* behaviour is kept only when the handler reached the driver.
Invocation(op, database_name, sql, table_name, drv, drivers, out) ==
    [op |-> op, database_name |-> database_name, sql |-> sql, table_name |-> table_name,
     drv |-> IF out.attempted THEN drv ELSE NoDriver,
     drivers |-> drivers, fs |-> fs,
     result |-> out.result, resp |-> out.resp, raised |-> out.raised,
     errors |-> out.errors, attempted |-> out.attempted, opened |-> out.opened,
     closed |-> out.closed, executed |-> out.executed]

Returned(inv) ==
    /\ last' = inv
    /\ openConns' = openConns + inv.opened - inv.closed
    /\ UNCHANGED <<program, env_config, env_path, databases, db_path, fs>>

Init ==
    /\ program \in {"Access_db", "access_simple"}
    /\ env_path \in PathEnv
    /\ env_config \in IF program = "Access_db" THEN ConfigEnv
                      ELSE {[kind |-> "absent", items |-> <<>>]}
    /\ databases = IF program = "Access_db" THEN InitDatabases(env_config, env_path) ELSE <<>>
    /\ db_path = single_db_path(env_path)
    /\ fs \in SUBSET FilePaths
    /\ openConns = 0
    /\ last = NoInvocation

\* A file appears or disappears between two invocations.
FsChange ==
    /\ \E f \in FilePaths : fs' = IF f \in fs THEN fs \ {f} ELSE fs \cup {f}
    /\ UNCHANGED <<program, env_config, env_path, databases, db_path, openConns, last>>

list_databases ==
    /\ program = "Access_db"
    /\ Returned(Invocation("list_databases", <<>>, <<>>, <<>>, NoDriver, NoDrivers,
                           list_databases_run))

list_tables ==
    /\ program = "Access_db"
    /\ \E database_name \in DatabaseNameArgs :
       \E drv \in DriverIf(list_tables_run(database_name, NoDriver).attempted, TablesDriver) :
           Returned(Invocation("list_tables", database_name, <<>>, <<>>, drv, NoDrivers,
                               list_tables_run(database_name, drv)))

query ==
    /\ program = "Access_db"
    /\ \E sql \in SqlArgs, database_name \in DatabaseNameArgs :
       \E drv \in DriverIf(query_run(sql, database_name, NoDriver).attempted, QueryDriver) :
           Returned(Invocation("query", database_name, sql, <<>>, drv, NoDrivers,
                               query_run(sql, database_name, drv)))

describe_table ==
    /\ program = "Access_db"
    /\ \E table_name \in TableNameArgs, database_name \in DatabaseNameArgs :
       \E drv \in DriverIf(describe_table_run(table_name, database_name, NoDriver).attempted,
                            ColumnsDriver) :
           Returned(Invocation("describe_table", database_name, <<>>, table_name, drv,
                               NoDrivers,
                               describe_table_run(table_name, database_name, drv)))

get_connection_info ==
    /\ program = "Access_db"
    /\ \E database_name \in DatabaseNameArgs :
       \E drivers \in IF HasKey(databases, database_name) THEN DriverLists ELSE {NoDrivers} :
           Returned(Invocation("get_connection_info", database_name, <<>>, <<>>, NoDriver,
                               drivers, get_connection_info_run(database_name, drivers)))

simple_list_tables ==
    /\ program = "access_simple"
    /\ \E drv \in DriverIf(simple_list_tables_run(NoDriver).attempted, TablesDriver) :
           Returned(Invocation("list_tables", <<>>, <<>>, <<>>, drv, NoDrivers,
                               simple_list_tables_run(drv)))

simple_query ==
    /\ program = "access_simple"
    /\ \E sql \in SqlArgs :
       \E drv \in DriverIf(simple_query_run(sql, NoDriver).attempted, QueryDriver) :
           Returned(Invocation("query", <<>>, sql, <<>>, drv, NoDrivers,
                               simple_query_run(sql, drv)))

simple_describe_table ==
    /\ program = "access_simple"
    /\ \E table_name \in TableNameArgs :
       \E drv \in DriverIf(simple_describe_table_run(table_name, NoDriver).attempted,
                            ColumnsDriver) :
           Returned(Invocation("describe_table", <<>>, <<>>, table_name, drv, NoDrivers,
                               simple_describe_table_run(table_name, drv)))

simple_get_connection_info ==
    /\ program = "access_simple"
    /\ \E drivers \in DriverLists :
           Returned(Invocation("get_connection_info", <<>>, <<>>, <<>>, NoDriver, drivers,
                               simple_get_connection_info_run(drivers)))

Next ==
    \/ FsChange
    \/ list_databases
    \/ list_tables
    \/ query
    \/ describe_table
    \/ get_connection_info
    \/ simple_list_tables
    \/ simple_query
    \/ simple_describe_table
    \/ simple_get_connection_info

Spec == Init /\ [][Next]_vars

\* ------------------------------------------------------------------ claims
\* The lines of a text: its pieces between line breaks.
RECURSIVE SplitLines(_)
SplitLines(s) ==
    IF \A i \in 1..Len(s) : s[i] # NL THEN <<s>>
    ELSE LET i == CHOOSE k \in 1..Len(s) : s[k] = NL /\ \A j \in 1..(k - 1) : s[j] # NL
         IN  <<SubSeq(s, 1, i - 1)>> \o SplitLines(SubSeq(s, i + 1, Len(s)))

\* The items of a text between ", " separators.
RECURSIVE SplitCommaSpace(_)
SplitCommaSpace(s) ==
    IF s = <<>> THEN <<>>
    ELSE IF \A i \in 1..(Len(s) - 1) : ~(s[i] = "," /\ s[i + 1] = " ") THEN <<s>>
    ELSE LET i == CHOOSE k \in 1..(Len(s) - 1) :
                      /\ s[k] = "," /\ s[k + 1] = " "
                      /\ \A j \in 1..(k - 1) : ~(s[j] = "," /\ s[j + 1] = " ")
         IN  <<SubSeq(s, 1, i - 1)>> \o SplitCommaSpace(SubSeq(s, i + 2, Len(s)))

\* The text after the first occurrence of a piece.
AfterPiece(s, piece) ==
    LET i == CHOOSE k \in 1..Len(s) : s[k] = piece /\ \A j \in 1..(k - 1) : s[j] # piece
    IN  SubSeq(s, i + 1, Len(s))

HasPiece(s, piece) == \E k \in 1..Len(s) : s[k] = piece

ConnectingOps == {"list_tables", "query", "describe_table"}
ErrorKinds == {"NotFound", "DatabaseUnavailable", "DriverError", "RejectedInput", "UnexpectedError"}
RegistryNames == {databases[i].name : i \in 1..Len(databases)}

\* The last invocation named a database the registry does not hold.
UnknownName ==
    /\ program = "Access_db"
    /\ last.op \in ConnectingOps \cup {"get_connection_info"}
    /\ last.database_name \notin RegistryNames

\* C1: an invocation of list_tables, query, describe_table or
\* get_connection_info with a database name that is no key of the registry
\* returns a string (nothing is raised) whose list of available databases holds
\* every configured name once and no other name, and makes no call to
\* pyodbc.connect.
C1_UnknownNameEnumeratesRegistry ==
    UnknownName =>
        /\ last.raised = "none"
        /\ ~last.attempted /\ last.opened = 0 /\ ~last.executed
        /\ HasPiece(last.resp, "' not found. Available databases: ")
        /\ LET listed == SplitCommaSpace(AfterPiece(last.resp,
                                                     "' not found. Available databases: "))
           IN  /\ {listed[i] : i \in 1..Len(listed)} = RegistryNames
               /\ Len(listed) = Len(databases)

C1_Witness ==
    /\ UnknownName
    /\ last.op = "query"
    /\ Len(databases) = 2
    /\ last.result = "NotFound"

\* After leading whitespace the text reads SELECT, in either case.
BeginsWithSelect(sql) ==
    \E k \in 1..Len(sql) :
        /\ \A j \in 1..(k - 1) : sql[j] \in Whitespace
        /\ k + 5 <= Len(sql)
        /\ \A j \in 1..6 : UpperChar(sql[k + j - 1]) = SELECT[j]

\* The registry value the last invocation's database name stands for (the one
\* path of access_simple.py).
ResolvedPath == IF program = "Access_db" THEN Lookup(databases, last.database_name) ELSE db_path
Resolves == program = "access_simple" \/ last.database_name \in RegistryNames

\* C2 as stated: a query whose trimmed, uppercased text does not begin with
\* SELECT is answered by the 'Only SELECT queries are allowed' string whatever
\* the database name and the filesystem, with no connection and no execute, and
\* a text that does begin with SELECT is not answered by it.
C2_RejectedWhateverTheDatabase ==
    last.op = "query" =>
        /\ ~BeginsWithSelect(last.sql) =>
               /\ last.resp = SelectOnlyMessage
               /\ ~last.attempted /\ last.opened = 0 /\ ~last.executed
        /\ BeginsWithSelect(last.sql) => last.resp # SelectOnlyMessage

\* C2, amended: a query whose trimmed, uppercased text does not begin with
\* SELECT never reaches pyodbc.connect or cursor.execute and returns an error
\* string: the NotFound message when the name is not configured, the
\* 'Error executing query' string when the configured value is no path, the
\* 'Database file not found' string when the path does not exist, and the
\* 'Only SELECT queries are allowed' string otherwise.  A text that begins with
\* SELECT after leading whitespace, in any case, is never answered by that
\* string, and reaches pyodbc.connect when the database resolves and exists.
C2_RejectedAfterDatabaseChecks ==
    last.op = "query" =>
        /\ ~BeginsWithSelect(last.sql) =>
               /\ last.raised = "none"
               /\ ~last.attempted /\ last.opened = 0 /\ ~last.executed
               /\ IF ~Resolves THEN last.result = "NotFound"
                  ELSE IF ~ResolvedPath.ok THEN last.result = "UnexpectedError"
                  ELSE IF ResolvedPath.str \notin last.fs
                       THEN last.resp = FileNotFoundMessage(ResolvedPath)
                  ELSE last.resp = SelectOnlyMessage
        /\ BeginsWithSelect(last.sql) =>
               /\ last.resp # SelectOnlyMessage
               /\ (Resolves /\ ResolvedPath.ok /\ ResolvedPath.str \in last.fs) => last.attempted

C2_Witness ==
    /\ last.op = "query"
    /\ ~BeginsWithSelect(last.sql)
    /\ last.sql # <<>>
    /\ last.result = "RejectedInput"
    /\ last.resp = SelectOnlyMessage

\* C3: every connection a handler opens is released when the handler returns,
\* on the return paths and on both exception paths; no connection stays open
\* between invocations, and an invocation that gets a connection opens its own.
C3_ConnectionsReleased ==
    /\ openConns = 0
    /\ last.closed = last.opened
    /\ (last.attempted /\ last.drv.connect # "error") => last.opened = 1
    /\ ~last.attempted => last.opened = 0

C3_Witness ==
    /\ last.op = "query"
    /\ last.drv.call = "error"
    /\ last.opened = 1
    /\ last.closed = 1
    /\ last.result = "DriverError"

\* C4 as stated: no handler invocation ends with an exception; each returns a
\* string.
C4_NothingPropagates == last.result # "raised" /\ last.raised = "none"

\* C5 as stated: an invocation that returns an error response of any kind has
\* made at least one logger.error call.
C5_ErrorsAreLogged == last.result \in ErrorKinds => last.errors >= 1

\* C6 as stated: with ACCESS_DB_CONFIG absent, empty, unparseable or no
\* mapping the registry is the one entry "default" with the value of
\* ACCESS_DB_PATH when that is set and the hardcoded path only when it is not;
\* with a non-empty mapping the registry is that mapping; it is never empty.
C6_RegistryFromEnvironment ==
    program = "Access_db" =>
        /\ env_config.kind \in {"absent", "empty", "unparseable", "nonmapping"} =>
               databases = <<[name |-> default_db_name,
                              path |-> IF env_path.set THEN PathOf(env_path.value)
                                       ELSE default_db_path]>>
        /\ (env_config.kind = "mapping" /\ env_config.items # <<>>) =>
               databases = env_config.items
        /\ databases # <<>>

\* C7: when list_tables, query or describe_table is called for a database whose
\* path does not exist at the time of the call, the handler returns the
\* 'Database file not found at <path>' string and does not call pyodbc.connect;
\* a handler that calls pyodbc.connect has found the path to exist.
C7_MissingFileStopsBeforeConnect ==
    (last.op \in ConnectingOps /\ Resolves /\ ResolvedPath.ok) =>
        /\ ResolvedPath.str \notin last.fs =>
               /\ Len(last.resp) = 3
               /\ last.resp[1] = "Error: Database file not found at "
               /\ last.resp[2] = ResolvedPath.str
               /\ ~last.attempted /\ last.opened = 0 /\ ~last.executed
               /\ last.raised = "none"
        /\ last.attempted => ResolvedPath.str \in last.fs

C7_Witness ==
    /\ program = "Access_db"
    /\ last.op = "describe_table"
    /\ Resolves /\ ResolvedPath.ok
    /\ ResolvedPath.str \notin last.fs
    /\ last.result = "DatabaseUnavailable"

\* A name that starts with the four characters MSys.
IsSystemName(t) == Len(t) >= 4 /\ t[1] = "M" /\ t[2] = "S" /\ t[3] = "y" /\ t[4] = "s"
NotSystemName(t) == ~IsSystemName(t)

\* The table names the last list_tables response lists, one per line (after the
\* title line of Access_db.py).
ListedTables ==
    LET lines == SplitLines(last.resp)
    IN  IF program = "Access_db" THEN Tail(lines) ELSE lines

\* C8: when the driver returns its TABLE entries, list_tables lists exactly the
\* names that do not start with MSys, in the driver's order, none of them
\* starting with MSys; when no name is left it returns the 'No tables found'
\* message.
C8_SystemTablesFiltered ==
    (last.op = "list_tables" /\ last.drv.call = "ok") =>
        LET kept == SelectSeq(last.drv.data.tables, NotSystemName)
        IN  IF kept = <<>>
            THEN /\ last.resp[1] \in {"No tables found in database '",
                                      "No tables found in the database."}
                 /\ Len(SplitLines(last.resp)) = 1
            ELSE /\ ListedTables = kept
                 /\ \A i \in 1..Len(ListedTables) : ~IsSystemName(ListedTables[i])

C8_Witness ==
    /\ last.op = "list_tables"
    /\ last.drv.call = "ok"
    /\ Len(last.drv.data.tables) = 2
    /\ IsSystemName(last.drv.data.tables[1])
    /\ ~IsSystemName(last.drv.data.tables[2])
    /\ Len(ListedTables) = 1

\* A row as C9 has it: its cells in order, None as NULL, joined by " | ".
CellText(c) == IF c.null THEN <<"N", "U", "L", "L">> ELSE c.str
RenderedRow(row) ==
    IF Len(row) = 1 THEN CellText(row[1])
    ELSE CellText(row[1]) \o <<" ", "|", " ">> \o CellText(row[2])

\* C9 as stated: for a result with a descriptor and at least one row, the
\* separator is a line of dashes as long as the header line, and after it the
\* output has exactly one line per row, in the driver's order, each the row's
\* rendered cells joined by " | ".
C9_OneLinePerRow ==
    (/\ last.op = "query" /\ last.drv.call = "ok"
     /\ last.drv.data.has_description /\ last.drv.data.rows # <<>>) =>
        LET lines == SplitLines(last.resp)
            skip == IF program = "Access_db" THEN 1 ELSE 0
            rows == last.drv.data.rows
            body == SubSeq(lines, skip + 3, Len(lines))
        IN  /\ Len(lines) >= skip + 2
            /\ Len(lines[skip + 2]) = Len(lines[skip + 1])
            /\ \A i \in 1..Len(lines[skip + 2]) : lines[skip + 2][i] = "-"
            /\ Len(body) = Len(rows)
            /\ \A i \in 1..Len(rows) : body[i] = RenderedRow(rows[i])

\* The last field of a column line: the text after its last " | ".
LastField(line) ==
    LET k == CHOOSE i \in 1..Len(line) :
                 line[i] = "|" /\ \A j \in (i + 1)..Len(line) : line[j] # "|"
    IN  SubSeq(line, k + 2, Len(line))

\* C10 as stated: for every number n >= 0 of column records the output has
\* n + 4 lines and every column line ends in the field Yes or No.
C10_LineCountFromZero ==
    (last.op = "describe_table" /\ last.drv.call = "ok") =>
        LET lines == SplitLines(last.resp)
            n == Len(last.drv.data.columns)
        IN  /\ Len(lines) = n + 4
            /\ \A i \in 1..n : LastField(lines[4 + i]) \in {<<"Y", "e", "s">>, <<"N", "o">>}

\* C10, amended: for n >= 1 column records (and table and database names that
\* hold no line break) the output has n + 4 lines, the four header lines and
\* then one line per record whose last field is Yes or No; for n = 0 the output
\* is the one-line 'not found ... or has no columns' message.
C10_LineCountFromOne ==
    (last.op = "describe_table" /\ last.drv.call = "ok") =>
        LET lines == SplitLines(last.resp)
            n == Len(last.drv.data.columns)
        IN  IF n = 0
            THEN /\ Len(lines) = 1
                 /\ last.resp[1] = "Table '"
                 /\ last.resp[Len(last.resp)] \in {"' or has no columns.",
                                                   "' not found or has no columns."}
            ELSE /\ Len(lines) = n + 4
                 /\ \A i \in 1..n :
                        LastField(lines[4 + i]) \in {<<"Y", "e", "s">>, <<"N", "o">>}

C10_Witness ==
    /\ last.op = "describe_table"
    /\ last.drv.call = "ok"
    /\ Len(last.drv.data.columns) = 2
    /\ last.drv.data.columns[1].nullable = 0
    /\ last.drv.data.columns[2].nullable = 2
    /\ Len(SplitLines(last.resp)) = 6

\* The line list_databases gives a registry entry on the given filesystem.
EntryLine(entry, files) ==
    entry.name
    \o <<": ", entry.path.str, " [", IF entry.path.str \in files THEN "CHECK" ELSE "CROSS", "]">>

HasCode(text, code) ==
    \E k \in 1..Len(text) :
        /\ k + Len(code) - 1 <= Len(text)
        /\ \A j \in 1..Len(code) : text[k + j - 1] = code[j]

\* The driver names the last get_connection_info saw: none when pyodbc.drivers
\* raised.
VisibleDrivers == IF last.drivers.raises THEN <<>> ELSE last.drivers.names

AccessDriverVisible ==
    \E i \in 1..Len(VisibleDrivers) :
        HasCode(VisibleDrivers[i], <<"A", "c", "c", "e", "s", "s">>)

HasLine(lines, line) == \E i \in 1..Len(lines) : lines[i] = line

\* C12: for every list of visible driver names, the empty list and a failing
\* pyodbc.drivers included, the report of get_connection_info (for a database
\* whose configured value is a path) says 'Microsoft Access ODBC driver
\* available: No' and ends with the remediation block exactly when no name
\* holds the text Access, capital A and the rest small; otherwise it says Yes
\* and has no remediation block.
C12_AccessDriverReport ==
    (last.op = "get_connection_info" /\ Resolves /\ ResolvedPath.ok) =>
        LET lines == SplitLines(last.resp)
            n == Len(lines)
            no == <<"Microsoft Access ODBC driver available: ", "No">>
            yes == <<"Microsoft Access ODBC driver available: ", "Yes">>
        IN  /\ last.result = "ok"
            /\ IF AccessDriverVisible
               THEN /\ lines[n] = yes
                    /\ ~HasLine(lines, no)
                    /\ ~HasLine(lines, <<"RECOMMENDATION:">>)
               ELSE /\ n >= 5
                    /\ lines[n - 4] = no
                    /\ ~HasLine(lines, yes)
                    /\ lines[n - 3] = <<>>
                    /\ lines[n - 2] = <<"RECOMMENDATION:">>
                    /\ lines[n - 1][1] = "To fix the missing Access driver, please install the 'Microsoft Access Database Engine 2016 Redistributable'"
                    /\ lines[n][1] = "from Microsoft's website: https://www.microsoft.com/en-us/download/details.aspx?id=54920"

C12_Witness ==
    /\ last.op = "get_connection_info"
    /\ last.result = "ok"
    /\ ~last.drivers.raises
    /\ Len(last.drivers.names) = 2
    /\ ~AccessDriverVisible
    /\ HasLine(SplitLines(last.resp), <<"RECOMMENDATION:">>)

\* The two advisories, by their first sentence in the response.
HasDriverAdvice ==
    HasPiece(last.resp,
             "The Microsoft Access ODBC driver is not installed or configured properly. ")
HasTableAdvice ==
    HasPiece(last.resp,
             "The table referenced in your query does not exist. Use the list_tables tool to see available tables.")

\* The last invocation returned a pyodbc.Error of the driver as its response.
DriverFailed ==
    /\ last.op \in ConnectingOps
    /\ last.attempted
    /\ last.drv.connect = "error" \/ last.drv.call = "error"

\* C13 as stated: in each of the three handlers a driver failure comes back as
\* an error string with the driver-not-installed advisory when the message
\* holds IM002, with the table-not-found advisory when it holds 42S02, and
\* with no advisory when it holds neither.
C13_BothAdvisoriesEverywhere ==
    DriverFailed =>
        /\ last.raised = "none" /\ last.result = "DriverError"
        /\ HasCode(last.drv.msg, IM002) => HasDriverAdvice
        /\ HasCode(last.drv.msg, S42S02) => HasTableAdvice
        /\ (~HasCode(last.drv.msg, IM002) /\ ~HasCode(last.drv.msg, S42S02)) =>
               ~HasDriverAdvice /\ ~HasTableAdvice

\* C13, amended: in each of the three handlers a driver failure comes back as
\* an error string that holds the driver's message and carries the
\* driver-not-installed advisory exactly when the message holds IM002; the
\* table-not-found advisory is carried by query alone, exactly when the
\* message holds 42S02 and not IM002; list_tables and describe_table never
\* carry it.
C13_AdvisoriesByHandler ==
    DriverFailed =>
        /\ last.raised = "none" /\ last.result = "DriverError"
        /\ HasCode(last.resp, last.drv.msg)
        /\ HasDriverAdvice <=> HasCode(last.drv.msg, IM002)
        /\ HasTableAdvice <=>
               /\ last.op = "query"
               /\ HasCode(last.drv.msg, S42S02)
               /\ ~HasCode(last.drv.msg, IM002)

C13_Witness ==
    /\ DriverFailed
    /\ last.op = "query"
    /\ HasCode(last.drv.msg, S42S02)
    /\ ~HasCode(last.drv.msg, IM002)
    /\ HasTableAdvice

====
